---- MODULE Spec2Model ----
(***************************************************************************)
(* A model of src/src/fsevent.rs: the bridge from the FSEvents callback    *)
(* API to an abortable asynchronous stream.                                *)
(*                                                                         *)
(* Threads of one watch session:                                           *)
(*   - the constructing thread (raw_event_stream),                         *)
(*   - the host thread spawned by it, which runs the CFRunLoop and, inside *)
(*     the loop, the callback,                                             *)
(*   - the owner of the RawEventStreamHandler (abort, or drop),            *)
(*   - the consumer of the RawEventStream (poll_next, or drop).            *)
(* Every source line that touches shared state is one step, so that the    *)
(* threads interleave as the code allows.                                  *)
(***************************************************************************)
EXTENDS Integers, Sequences, FiniteSets, TLC

\* ------------------------------------------------------------------ bounds

\* Slots of the bounded event channel.  The source creates it with 1024 slots
\* (fsevent.rs:127); the model is checked with a small capacity, and every
\* property that mentions the capacity is stated in terms of this definition.
ChannelCapacity == 2

\* Entries the native layer hands to the callback over the whole session.
MaxEvents == 4

\* Calls of RawEventStreamHandler::abort the owner makes.
MaxAbortCalls == 2

\* ------------------------------------------------------------------ values

\* Option<T>: None, or Some(x).
None == << >>
Some(x) == << x >>

\* The raw flag words the native layer hands over: one with defined bits only
\* (ItemCreated), one with a bit no StreamFlags constant defines.
FlagItemCreated == 256
FlagUndefinedBit == 1073741824

\* All bits StreamFlags defines lie below this limit.
StreamFlagsLimit == 8388608

\* StreamFlags::from_bits: the decoded flags, or None when an undefined bit is set.
StreamFlagsFromBits(raw) ==
    IF raw < StreamFlagsLimit THEN Some([bits |-> raw]) ELSE None

\* CFNumber::to_i64: the value when the number converts to a signed 64-bit
\* integer without loss, None otherwise.
ToI64(num) ==
    IF num.fits THEN Some(num.val) ELSE None

\* The per-event native data the callback reads at one index: the extended
\* dictionary (with or without the file-id key) and the raw flags word.
Entries ==
    { [hasFileId |-> TRUE,  inode |-> [fits |-> TRUE,  val |-> 7], raw_flags |-> FlagItemCreated],
      [hasFileId |-> TRUE,  inode |-> [fits |-> FALSE, val |-> 0], raw_flags |-> FlagItemCreated],
      [hasFileId |-> TRUE,  inode |-> [fits |-> TRUE,  val |-> 7], raw_flags |-> FlagUndefinedBit],
      [hasFileId |-> FALSE, inode |-> [fits |-> TRUE,  val |-> 7], raw_flags |-> FlagItemCreated] }

\* The RawEvent built from an entry whose fields decode (the path, a string
\* copied through unchanged, is left out).
RawEvent(e, id) ==
    [id |-> id, inode |-> ToI64(e.inode)[1],
     flags |-> StreamFlagsFromBits(e.raw_flags)[1], raw_flags |-> e.raw_flags]

\* A variant of the decoding that unwraps the flags instead of mapping the
\* failure to CallbackError::ParseFlags.
Decode_UnwrapFlags(e, id) ==
    IF ~e.hasFileId THEN [tag |-> "panic", event |-> None]
    ELSE IF ToI64(e.inode) = None THEN [tag |-> "ToI64", event |-> None]
    ELSE IF StreamFlagsFromBits(e.raw_flags) = None THEN [tag |-> "panic", event |-> None]
    ELSE [tag |-> "Ok", event |-> Some(RawEvent(e, id))]

\* The outcome of decoding one entry (fsevent.rs:222-251): "panic" when the
\* dictionary lookup of a missing key panics, a CallbackError, or Ok(raw_event).
Decode(e, id) ==
    IF ~e.hasFileId THEN [tag |-> "panic", event |-> None]
    ELSE IF ToI64(e.inode) = None THEN [tag |-> "ToI64", event |-> None]
    ELSE IF StreamFlagsFromBits(e.raw_flags) = None THEN [tag |-> "ParseFlags", event |-> None]
    ELSE [tag |-> "Ok", event |-> Some(RawEvent(e, id))]

\* ------------------------------------------------------------------- state

VARIABLES
    ctorPc,          \* raw_event_stream: "start", "created", "spawned", "done", "failed"
    hostPc,          \* the host thread's position
    loopPhase,       \* the CFRunLoop inside run_current: "off", "top", "waiting", "woken", "callback", "check"
    stopFlag,        \* the loop's stopped flag, set by CFRunLoopStop
    wakeup,          \* a wake-up posted to the loop by CFRunLoopStop
    fsStream,        \* the watch-stream object: "none", "created", "scheduled", "started", "stopped", "invalidated", "released"
    pendingNotes,    \* native notifications queued for the loop
    nextId,          \* the native event id of the next entry
    cbNum,           \* num_events of the running callback invocation
    cbIdx,           \* idx of the running callback invocation
    lastEntry,       \* the entry the callback read last (None before the first)
    lastOutcome,     \* what became of that entry
    chan,            \* the records buffered in the event channel
    senderAlive,     \* the context (the channel's sender) has not been released
    rxClosed,        \* the RawEventStream (the channel's receiver) was dropped
    aborted,         \* the flag shared by AbortHandle and Abortable
    parked,          \* the consumer's waker is registered (last poll was Pending)
    lastPoll,        \* the result of the most recent poll, and whether abort had returned
    received,        \* the records the consumer was given
    produced,        \* the records the callback built, in order
    firstDrop,       \* index in produced of the first record dropped on a full channel (0: none)
    triple,          \* RawEventStreamHandler.runloop: "none" (no handle yet), "some", "taken"
    handleDropped,   \* the RawEventStreamHandler was dropped
    abortPc,         \* the owner's position inside abort
    abortCalls,      \* calls of abort made
    abortTrace,      \* the shutdown steps executed, in order
    observerOn,      \* the one-shot observer is registered on the loop
    idleSignal,      \* the BeforeWaiting signal is in the one-shot channel
    phaseAtStop      \* loopPhase at the moment runloop.stop() was issued

vars == << ctorPc, hostPc, loopPhase, stopFlag, wakeup, fsStream, pendingNotes, nextId,
           cbNum, cbIdx, lastEntry, lastOutcome, chan, senderAlive, rxClosed, aborted, parked,
           lastPoll, received, produced, firstDrop, triple, handleDropped, abortPc,
           abortCalls, abortTrace, observerOn, idleSignal, phaseAtStop >>

ctorVars  == << ctorPc >>
hostVars  == << hostPc, loopPhase, fsStream >>
cbVars    == << nextId, cbNum, cbIdx, lastEntry, lastOutcome, produced, firstDrop >>
chanVars  == << chan, senderAlive, rxClosed >>
loopCtl   == << stopFlag, wakeup, pendingNotes >>
obsVars   == << observerOn, idleSignal >>
handleVars == << triple, handleDropped >>
consVars  == << parked, lastPoll, received >>
abortVars == << abortPc, abortCalls, abortTrace, phaseAtStop >>

Init ==
    /\ ctorPc = "start"
    /\ hostPc = "none"
    /\ loopPhase = "off"
    /\ stopFlag = FALSE
    /\ wakeup = FALSE
    /\ fsStream = "none"
    /\ pendingNotes = 0
    /\ nextId = 1
    /\ cbNum = 0
    /\ cbIdx = 0
    /\ lastEntry = None
    /\ lastOutcome = "none"
    /\ chan = << >>
    /\ senderAlive = FALSE
    /\ rxClosed = FALSE
    /\ aborted = FALSE
    /\ parked = FALSE
    /\ lastPoll = [result |-> "none", afterAbort |-> FALSE]
    /\ received = << >>
    /\ produced = << >>
    /\ firstDrop = 0
    /\ triple = "none"
    /\ handleDropped = FALSE
    /\ abortPc = "idle"
    /\ abortCalls = 0
    /\ abortTrace = << >>
    /\ observerOn = FALSE
    /\ idleSignal = FALSE
    /\ phaseAtStop = "none"

\* ------------------------------------------------------------ construction

\* FSEventStreamContext::new (line 137) moves the StreamContextInfo behind a raw
\* pointer owned by the native stream: when the local stream_context goes out
\* of scope at the return of raw_event_stream the context is left as it is.
ContextAfterScopeExit(alive) == alive

\* release_context (line 105), run by the native layer when the watch-stream
\* object is destroyed: drops the StreamContextInfo and with it the sender.
ReleaseContext(alive) == FALSE

\* Variant of CreateStream for checking C11: the host thread is spawned before
\* the result of creating the native object is known.
CreateStream_SpawnFirst(ok) ==
    /\ ctorPc = "start"
    /\ hostPc' = "spawned"
    /\ IF ok
       THEN /\ ctorPc' = "spawned"
            /\ fsStream' = "created"
            /\ senderAlive' = TRUE
            /\ UNCHANGED rxClosed
       ELSE /\ ctorPc' = "failed"
            /\ senderAlive' = ContextAfterScopeExit(TRUE)
            /\ rxClosed' = TRUE
            /\ UNCHANGED fsStream
    /\ UNCHANGED << loopPhase, loopCtl, cbVars, chan, aborted,
                    consVars, handleVars, abortVars, obsVars >>

\* Variant of ReceiveRunloop for checking C12: the constructing call does not
\* wait for the host thread's hand-off.
ReceiveRunloop_NoWait ==
    /\ ctorPc = "spawned"
    /\ ctorPc' = "done"
    /\ triple' = "some"
    /\ UNCHANGED << hostVars, loopCtl, cbVars, chanVars, aborted, consVars,
                    handleDropped, abortVars, obsVars >>

\* raw_event_stream, lines 127-147: the event channel, the context around its
\* sender, and the native watch-stream object.  The channel and the context
\* are made first (lines 127-137); an error of FSEventStream::new (`?`, line
\* 147) returns before any thread is spawned: the receiver is dropped with the
\* call's locals, and the context, which no native stream owns, is left to
\* what the scope exit does with it.
CreateStream(ok) ==
    /\ ctorPc = "start"
    /\ IF ok
       THEN /\ ctorPc' = "created"
            /\ fsStream' = "created"
            /\ senderAlive' = TRUE
            /\ UNCHANGED rxClosed
       ELSE /\ ctorPc' = "failed"
            /\ senderAlive' = ContextAfterScopeExit(TRUE)
            /\ rxClosed' = TRUE
            /\ UNCHANGED fsStream
    /\ UNCHANGED << hostPc, loopPhase, loopCtl, cbVars, chan, aborted,
                    consVars, handleVars, abortVars, obsVars >>

\* raw_event_stream, line 152: thread::spawn.
SpawnThread ==
    /\ ctorPc = "created"
    /\ ctorPc' = "spawned"
    /\ hostPc' = "spawned"
    /\ UNCHANGED << loopPhase, fsStream, loopCtl, cbVars, chanVars, aborted,
                    consVars, handleVars, abortVars, obsVars >>

\* The host thread has sent its loop handle (line 160-162).
RunloopPublished ==
    hostPc \in {"published", "run", "returned", "stopped", "invalidated", "exited"}

\* Variant of ReceiveRunloop for checking C15: the context is dropped when the
\* constructing call returns.
ReceiveRunloop_DropsContext ==
    /\ ctorPc = "spawned"
    /\ RunloopPublished
    /\ ctorPc' = "done"
    /\ triple' = "some"
    /\ senderAlive' = FALSE
    /\ UNCHANGED << hostVars, loopCtl, cbVars, chan, rxClosed, aborted, consVars,
                    handleDropped, abortVars, obsVars >>

\* raw_event_stream, lines 169-179: runloop_rx.recv() blocks until the host
\* thread has published its loop; then the (stream, handle) pair exists.
ReceiveRunloop ==
    /\ ctorPc = "spawned"
    /\ RunloopPublished
    /\ ctorPc' = "done"
    /\ triple' = "some"
    /\ senderAlive' = ContextAfterScopeExit(senderAlive)
    /\ UNCHANGED << hostVars, loopCtl, cbVars, chan, rxClosed, aborted, consVars,
                    handleDropped, abortVars, obsVars >>

\* ------------------------------------------------------------- host thread

\* Lines 153-155: get_current and stream.schedule.
HostSchedule ==
    /\ hostPc = "spawned"
    /\ hostPc' = "scheduled"
    /\ fsStream' = "scheduled"
    /\ UNCHANGED << ctorVars, loopPhase, loopCtl, cbVars, chanVars, aborted,
                    consVars, handleVars, abortVars, obsVars >>

\* Line 156: stream.start.
HostStart ==
    /\ hostPc = "scheduled"
    /\ hostPc' = "started"
    /\ fsStream' = "started"
    /\ UNCHANGED << ctorVars, loopPhase, loopCtl, cbVars, chanVars, aborted,
                    consVars, handleVars, abortVars, obsVars >>

\* Lines 160-162: runloop_tx.send.
HostPublish ==
    /\ hostPc = "started"
    /\ hostPc' = "published"
    /\ UNCHANGED << ctorVars, loopPhase, fsStream, loopCtl, cbVars, chanVars, aborted,
                    consVars, handleVars, abortVars, obsVars >>

\* Line 164: CFRunLoop::run_current is entered.
HostRun ==
    /\ hostPc = "published"
    /\ hostPc' = "run"
    /\ loopPhase' = "top"
    /\ UNCHANGED << ctorVars, fsStream, loopCtl, cbVars, chanVars, aborted,
                    consVars, handleVars, abortVars, obsVars >>

\* The file-system event daemon queues one batch for the started stream.
NativeNotify ==
    /\ fsStream = "started"
    /\ (nextId - 1) + (cbNum - cbIdx) + pendingNotes < MaxEvents
    /\ pendingNotes' = pendingNotes + 1
    /\ UNCHANGED << ctorVars, hostVars, stopFlag, wakeup, cbVars, chanVars, aborted,
                    consVars, handleVars, abortVars, obsVars >>

\* Inside run_current: the loop is about to wait.  Its BeforeWaiting observers
\* fire (the one-shot observer sends its signal and is invalidated), and the
\* loop is then reported as waiting.
LoopBeforeWaiting ==
    /\ hostPc = "run"
    /\ loopPhase = "top"
    /\ loopPhase' = "waiting"
    /\ IF observerOn
       THEN /\ idleSignal' = TRUE
            /\ observerOn' = FALSE
       ELSE UNCHANGED obsVars
    /\ UNCHANGED << ctorVars, hostPc, fsStream, loopCtl, cbVars, chanVars, aborted,
                    consVars, handleVars, abortVars >>

\* Inside run_current: the waiting loop is woken by a queued notification.
LoopWakeForSource ==
    /\ hostPc = "run"
    /\ loopPhase = "waiting"
    /\ pendingNotes > 0
    /\ loopPhase' = "woken"
    /\ UNCHANGED << ctorVars, hostPc, fsStream, loopCtl, cbVars, chanVars, aborted,
                    consVars, handleVars, abortVars, obsVars >>

\* Inside run_current: the waiting loop is woken by CFRunLoopStop's wake-up.
LoopWakeForStop ==
    /\ hostPc = "run"
    /\ loopPhase = "waiting"
    /\ wakeup
    /\ wakeup' = FALSE
    /\ loopPhase' = "check"
    /\ UNCHANGED << ctorVars, hostPc, fsStream, stopFlag, pendingNotes, cbVars, chanVars,
                    aborted, consVars, handleVars, abortVars, obsVars >>

\* Inside run_current, at the end of an iteration: a stopped loop makes
\* run_current return, any other starts the next iteration.
LoopCheckStopped ==
    /\ hostPc = "run"
    /\ loopPhase = "check"
    /\ IF stopFlag
       THEN /\ stopFlag' = FALSE
            /\ loopPhase' = "off"
            /\ hostPc' = "returned"
       ELSE /\ loopPhase' = "top"
            /\ UNCHANGED << stopFlag, hostPc >>
    /\ UNCHANGED << ctorVars, fsStream, wakeup, pendingNotes, cbVars, chanVars, aborted,
                    consVars, handleVars, abortVars, obsVars >>

\* Line 165: stream.stop; the stream delivers nothing from here on.
HostStreamStop ==
    /\ hostPc = "returned"
    /\ hostPc' = "stopped"
    /\ fsStream' = "stopped"
    /\ pendingNotes' = 0
    /\ UNCHANGED << ctorVars, loopPhase, stopFlag, wakeup, cbVars, chanVars, aborted,
                    consVars, handleVars, abortVars, obsVars >>

\* Line 166: stream.invalidate.
HostStreamInvalidate ==
    /\ hostPc = "stopped"
    /\ hostPc' = "invalidated"
    /\ fsStream' = "invalidated"
    /\ UNCHANGED << ctorVars, loopPhase, loopCtl, cbVars, chanVars, aborted,
                    consVars, handleVars, abortVars, obsVars >>

\* Variant of WakeStreamTask for checking C16: the waker is not called, a
\* parked task stays parked.
WakeStreamTask_Lost(isParked) == isParked

\* The waker the stream's task left with its last Pending poll is called: by
\* the channel when its last sender is dropped (line 167, through
\* release_context) and by abort_handle.abort() (line 75).  A parked task
\* becomes runnable.
WakeStreamTask(isParked) == FALSE

\* Line 167: the closure ends; the stream it owns is dropped, the native
\* object is released and its release callback (release_context, line 105)
\* drops the context, the channel's only sender.  A parked consumer is woken.
HostExit ==
    /\ hostPc = "invalidated"
    /\ hostPc' = "exited"
    /\ fsStream' = "released"
    /\ senderAlive' = ReleaseContext(senderAlive)
    /\ parked' = WakeStreamTask(parked)
    /\ UNCHANGED << ctorVars, loopPhase, loopCtl, cbVars, chan, rxClosed, aborted,
                    lastPoll, received, handleVars, abortVars, obsVars >>

\* ---------------------------------------------------------------- callback

\* The loop dispatches one queued batch: callback (lines 182-200) is entered
\* with num_events = n.
CallbackBegin(n) ==
    /\ hostPc = "run"
    /\ loopPhase = "woken"
    /\ pendingNotes > 0
    /\ n >= 1
    /\ (nextId - 1) + n + (pendingNotes - 1) <= MaxEvents
    /\ pendingNotes' = pendingNotes - 1
    /\ loopPhase' = "callback"
    /\ cbNum' = n
    /\ cbIdx' = 0
    /\ UNCHANGED << ctorVars, hostPc, fsStream, stopFlag, wakeup, nextId, lastEntry,
                    lastOutcome, produced, firstDrop, chanVars, aborted, consVars, handleVars,
                    abortVars, obsVars >>

\* A variant of the send that never finds the channel full.
TrySendResult_NeverFull ==
    IF rxClosed THEN "closed" ELSE "sent"

\* Sender::try_send (line 255): "closed" when the receiver is gone, "full"
\* when no slot is free, "sent" otherwise.
TrySendResult ==
    IF rxClosed THEN "closed"
    ELSE IF Len(chan) >= ChannelCapacity THEN "full"
    ELSE "sent"

\* A variant of the send that delivers the record twice.
Enqueue_Twice(q, ev) == Append(Append(q, ev), ev)

\* A variant of the send that puts the record in front of the buffered ones.
Enqueue_Front(q, ev) == << ev >> \o q

\* A successful try_send puts the record behind the buffered ones.
Enqueue(q, ev) == Append(q, ev)

\* Variant of PhaseAfterPanic for checking C13: without the catch_unwind the
\* panic leaves callback and takes the loop down with it.
PhaseAfterPanic_Propagates == "off"

\* callback, lines 190-199: catch_unwind turns a panic of callback_impl into an
\* ordinary return of callback, so the loop goes on as after any callback.
PhaseAfterPanic == "check"

\* callback_impl, one turn of the loop at lines 221-262, on the entry e read at
\* index idx.  A decode error skips the entry, a well-formed entry is offered
\* to the channel without blocking, a panic unwinds to catch_unwind (line 190)
\* and ends the invocation.
CallbackEntry(e) ==
    /\ hostPc = "run"
    /\ loopPhase = "callback"
    /\ cbIdx < cbNum
    /\ lastEntry' = Some(e)
    /\ LET d == Decode(e, nextId) IN
       CASE d.tag = "panic" ->
              /\ lastOutcome' = "panic"
              /\ loopPhase' = PhaseAfterPanic
              /\ nextId' = nextId + (cbNum - cbIdx)
              /\ cbNum' = 0
              /\ cbIdx' = 0
              /\ UNCHANGED << produced, firstDrop, chan, parked >>
         [] d.tag \in {"ToI64", "ParseFlags"} ->
              /\ lastOutcome' = d.tag
              /\ cbIdx' = cbIdx + 1
              /\ nextId' = nextId + 1
              /\ UNCHANGED << loopPhase, cbNum, produced, firstDrop, chan, parked >>
         [] d.tag = "Ok" ->
              /\ lastOutcome' = TrySendResult
              /\ cbIdx' = cbIdx + 1
              /\ nextId' = nextId + 1
              /\ produced' = Append(produced, d.event[1])
              /\ chan' = IF TrySendResult = "sent" THEN Enqueue(chan, d.event[1]) ELSE chan
              /\ parked' = IF TrySendResult = "sent" THEN FALSE ELSE parked
              /\ firstDrop' = IF TrySendResult = "full" /\ firstDrop = 0
                              THEN Len(produced) + 1 ELSE firstDrop
              /\ UNCHANGED << loopPhase, cbNum >>
    /\ UNCHANGED << ctorVars, hostPc, fsStream, loopCtl, senderAlive, rxClosed, aborted,
                    lastPoll, received, handleVars, abortVars, obsVars >>

\* callback returns after the last entry (line 262, then line 199).
CallbackReturn ==
    /\ hostPc = "run"
    /\ loopPhase = "callback"
    /\ cbIdx = cbNum
    /\ loopPhase' = "check"
    /\ cbNum' = 0
    /\ cbIdx' = 0
    /\ UNCHANGED << ctorVars, hostPc, fsStream, loopCtl, nextId, lastEntry, lastOutcome,
                    produced, firstDrop, chanVars, aborted, consVars, handleVars, abortVars, obsVars >>

\* ------------------------------------------------- RawEventStreamHandler

\* A variant of the take at line 58 that reads the triple and leaves it in place.
TripleAfterTake_Kept == "some"

\* Line 58: self.runloop.take() leaves None in the handle.
TripleAfterTake == "taken"

\* CFRunLoopIsWaiting (line 63).
IsWaiting == loopPhase = "waiting"

\* abort is entered (line 57-58).  With the triple present it is taken and
\* the shutdown protocol starts; with the triple gone the call returns at once.
AbortCall ==
    /\ ctorPc = "done"
    /\ ~handleDropped
    /\ abortPc \in {"idle", "returned"}
    /\ abortCalls < MaxAbortCalls
    /\ abortCalls' = abortCalls + 1
    /\ IF triple = "some"
       THEN /\ triple' = TripleAfterTake
            /\ abortPc' = "add_observer"
       ELSE /\ abortPc' = "returned"
            /\ UNCHANGED triple
    /\ UNCHANGED << ctorVars, hostVars, loopCtl, cbVars, chanVars, aborted, consVars,
                    handleDropped, abortTrace, phaseAtStop, obsVars >>

\* Lines 59-61: the one-shot BeforeWaiting observer is created and registered.
AbortAddObserver ==
    /\ abortPc = "add_observer"
    /\ observerOn' = TRUE
    /\ abortTrace' = Append(abortTrace, "add_observer")
    /\ abortPc' = "is_waiting"
    /\ UNCHANGED << ctorVars, hostVars, loopCtl, cbVars, chanVars, aborted, consVars,
                    handleVars, abortCalls, phaseAtStop, idleSignal >>

\* A variant of lines 63-66 that waits for the signal without testing
\* is_waiting first.
AbortIsWaiting_AlwaysRecv ==
    /\ abortPc = "is_waiting"
    /\ abortPc' = "recv"
    /\ UNCHANGED << ctorVars, hostVars, loopCtl, cbVars, chanVars, aborted, consVars,
                    handleVars, abortCalls, abortTrace, phaseAtStop, obsVars >>

\* Line 63: the test of runloop.is_waiting().
AbortIsWaiting ==
    /\ abortPc = "is_waiting"
    /\ abortPc' = IF IsWaiting THEN "remove_observer" ELSE "recv"
    /\ UNCHANGED << ctorVars, hostVars, loopCtl, cbVars, chanVars, aborted, consVars,
                    handleVars, abortCalls, abortTrace, phaseAtStop, obsVars >>

\* Line 65: rx.recv() blocks until the observer has sent the signal.
AbortRecv ==
    /\ abortPc = "recv"
    /\ idleSignal
    /\ idleSignal' = FALSE
    /\ abortTrace' = Append(abortTrace, "wait")
    /\ abortPc' = "remove_observer"
    /\ UNCHANGED << ctorVars, hostVars, loopCtl, cbVars, chanVars, aborted, consVars,
                    handleVars, abortCalls, phaseAtStop, observerOn >>

\* Line 68: runloop.remove_observer.
AbortRemoveObserver ==
    /\ abortPc = "remove_observer"
    /\ observerOn' = FALSE
    /\ abortTrace' = Append(abortTrace, "remove_observer")
    /\ abortPc' = "stop"
    /\ UNCHANGED << ctorVars, hostVars, loopCtl, cbVars, chanVars, aborted, consVars,
                    handleVars, abortCalls, phaseAtStop, idleSignal >>

\* Line 69: runloop.stop().  CFRunLoopStop marks a running loop stopped and
\* wakes it; on a loop that is not running it does nothing.
AbortStop ==
    /\ abortPc = "stop"
    /\ IF hostPc = "run"
       THEN /\ stopFlag' = TRUE
            /\ wakeup' = TRUE
       ELSE UNCHANGED << stopFlag, wakeup >>
    /\ phaseAtStop' = loopPhase
    /\ abortTrace' = Append(abortTrace, "stop")
    /\ abortPc' = "join"
    /\ UNCHANGED << ctorVars, hostVars, pendingNotes, cbVars, chanVars, aborted, consVars,
                    handleVars, abortCalls, obsVars >>

\* A variant of line 72 that does not wait for the host thread.
AbortJoin_NoWait ==
    /\ abortPc = "join"
    /\ abortTrace' = Append(abortTrace, "join")
    /\ abortPc' = "abort"
    /\ UNCHANGED << ctorVars, hostVars, loopCtl, cbVars, chanVars, aborted, consVars,
                    handleVars, abortCalls, phaseAtStop, obsVars >>

\* Variant of AbortJoin for checking C14: abort waits for the run call to
\* return, not for the thread to end.
AbortJoin_AfterRun ==
    /\ abortPc = "join"
    /\ hostPc \in {"returned", "stopped", "invalidated", "exited"}
    /\ abortTrace' = Append(abortTrace, "join")
    /\ abortPc' = "abort"
    /\ UNCHANGED << ctorVars, hostVars, loopCtl, cbVars, chanVars, aborted, consVars,
                    handleVars, abortCalls, phaseAtStop, obsVars >>

\* Line 72: thread_handle.join() blocks until the host thread has ended.
AbortJoin ==
    /\ abortPc = "join"
    /\ hostPc = "exited"
    /\ abortTrace' = Append(abortTrace, "join")
    /\ abortPc' = "abort"
    /\ UNCHANGED << ctorVars, hostVars, loopCtl, cbVars, chanVars, aborted, consVars,
                    handleVars, abortCalls, phaseAtStop, obsVars >>

\* Lines 75-77: abort_handle.abort() sets the shared flag and wakes the
\* stream's task; abort then returns.
AbortStream ==
    /\ abortPc = "abort"
    /\ aborted' = TRUE
    /\ parked' = WakeStreamTask(parked)
    /\ abortTrace' = Append(abortTrace, "abort")
    /\ abortPc' = "returned"
    /\ UNCHANGED << ctorVars, hostVars, loopCtl, cbVars, chanVars, lastPoll, received,
                    handleVars, abortCalls, phaseAtStop, obsVars >>

\* A variant of the drop that stops the loop, as a Drop implementation
\* calling CFRunLoopStop would.
DropHandle_StopsLoop ==
    /\ ctorPc = "done"
    /\ ~handleDropped
    /\ abortPc \in {"idle", "returned", "fatal"}
    /\ handleDropped' = TRUE
    /\ IF hostPc = "run" /\ triple = "some"
       THEN /\ stopFlag' = TRUE
            /\ wakeup' = TRUE
       ELSE UNCHANGED << stopFlag, wakeup >>
    /\ UNCHANGED << ctorVars, hostVars, pendingNotes, cbVars, chanVars, aborted, consVars,
                    triple, abortVars, obsVars >>

\* The RawEventStreamHandler is dropped (lines 46-53: it has no Drop
\* implementation): the loop reference, the JoinHandle and the AbortHandle it
\* may still hold are released, which detaches the thread and stops nothing.
\* The owner can drop it whenever no abort call is running, also after a call
\* that ended by a panic.
DropHandle ==
    /\ ctorPc = "done"
    /\ ~handleDropped
    /\ abortPc \in {"idle", "returned", "fatal"}
    /\ handleDropped' = TRUE
    /\ UNCHANGED << ctorVars, hostVars, loopCtl, cbVars, chanVars, aborted, consVars,
                    triple, abortVars, obsVars >>

\* ---------------------------------------------------------- RawEventStream

\* A variant of poll_next that asks the receiver before it looks at the flag.
PollResult_ReceiverFirst(budget) ==
    IF budget /\ Len(chan) > 0 THEN "item"
    ELSE IF aborted THEN "end"
    ELSE IF ~budget THEN "pending"
    ELSE IF ~senderAlive THEN "end"
    ELSE "pending"

\* Variant of poll_next for checking C19: an empty channel is reported as the
\* end of the sequence.
PollResult_EndWhenEmpty(budget) ==
    IF aborted THEN "end"
    ELSE IF ~budget THEN "pending"
    ELSE IF Len(chan) > 0 THEN "item"
    ELSE "end"

\* What poll_next (lines 96-98) returns.  Abortable reports the end once the
\* flag is set, before it looks at the receiver.  The receiver first asks the
\* polling task's cooperative budget: with the budget used up (budget FALSE)
\* it returns Pending whatever the channel holds; otherwise it yields a
\* buffered record, the end when the sender is gone, Pending otherwise.
PollResult(budget) ==
    IF aborted THEN "end"
    ELSE IF ~budget THEN "pending"
    ELSE IF Len(chan) > 0 THEN "item"
    ELSE IF ~senderAlive THEN "end"
    ELSE "pending"

\* One poll of the stream by the consumer task, whose cooperative budget is
\* left or used up.  A poll that is Pending for want of budget reschedules
\* the task at once; one that is Pending on an empty channel parks it.
Poll(budget) ==
    /\ ctorPc = "done"
    /\ ~rxClosed
    /\ lastPoll' = [result |-> PollResult(budget), afterAbort |-> abortPc = "returned"]
    /\ IF PollResult(budget) = "item"
       THEN /\ received' = Append(received, Head(chan))
            /\ chan' = Tail(chan)
       ELSE UNCHANGED << received, chan >>
    /\ parked' = (PollResult(budget) = "pending" /\ budget)
    /\ UNCHANGED << ctorVars, hostVars, loopCtl, cbVars, senderAlive, rxClosed, aborted,
                    handleVars, abortVars, obsVars >>

PollNext == \E budget \in BOOLEAN : Poll(budget)

\* Variant of DropStream for checking C17: dropping the stream cancels the
\* session by stopping the loop.
DropStream_StopsLoop ==
    /\ ctorPc = "done"
    /\ ~rxClosed
    /\ rxClosed' = TRUE
    /\ chan' = << >>
    /\ parked' = FALSE
    /\ IF hostPc = "run"
       THEN /\ stopFlag' = TRUE
            /\ wakeup' = TRUE
       ELSE UNCHANGED << stopFlag, wakeup >>
    /\ UNCHANGED << ctorVars, hostVars, pendingNotes, cbVars, senderAlive, aborted,
                    lastPoll, received, handleVars, abortVars, obsVars >>

\* The RawEventStream is dropped: the receiver closes the channel and the
\* records still buffered are discarded.
DropStream ==
    /\ ctorPc = "done"
    /\ ~rxClosed
    /\ rxClosed' = TRUE
    /\ chan' = << >>
    /\ parked' = FALSE
    /\ UNCHANGED << ctorVars, hostVars, loopCtl, cbVars, senderAlive, aborted,
                    lastPoll, received, handleVars, abortVars, obsVars >>

\* ----------------------------------------------------------- specification

ConstructNext ==
    \/ \E ok \in BOOLEAN : CreateStream(ok)
    \/ SpawnThread
    \/ ReceiveRunloop

HostNext ==
    \/ HostSchedule
    \/ HostStart
    \/ HostPublish
    \/ HostRun
    \/ LoopBeforeWaiting
    \/ LoopWakeForSource
    \/ LoopWakeForStop
    \/ LoopCheckStopped
    \/ \E n \in 1..MaxEvents : CallbackBegin(n)
    \/ \E e \in Entries : CallbackEntry(e)
    \/ CallbackReturn
    \/ HostStreamStop
    \/ HostStreamInvalidate
    \/ HostExit

AbortNext ==
    \/ AbortAddObserver
    \/ AbortIsWaiting
    \/ AbortRecv
    \/ AbortRemoveObserver
    \/ AbortStop
    \/ AbortJoin
    \/ AbortStream

OwnerNext ==
    \/ AbortCall
    \/ DropHandle

ConsumerNext ==
    \/ PollNext
    \/ DropStream

Next ==
    \/ ConstructNext
    \/ HostNext
    \/ NativeNotify
    \/ AbortNext
    \/ OwnerNext
    \/ ConsumerNext

Spec == Init /\ [][Next]_vars

\* The constructing thread, the host thread (with the loop and the callback
\* it runs) and the thread inside abort are scheduled fairly; the owner, the
\* consumer and the file system are free to do nothing.
SpecFair ==
    /\ Spec
    /\ WF_vars(ConstructNext)
    /\ WF_vars(HostNext)
    /\ WF_vars(AbortNext)

\* A poll by the executor: it polls the task only while the task is runnable,
\* that is not parked.  (PollNext itself has no such guard: the owner of the
\* stream may poll it at any time.)
PollWoken == ~parked /\ PollNext

\* SpecFair with an executor that keeps polling a runnable consumer task; a
\* parked task is polled again only after something has called its waker.
\* The consumer may still drop the stream.
SpecFairConsumer ==
    /\ SpecFair
    /\ WF_vars(PollWoken)

\* ------------------------------------------------- protocol violations
\* The two failures abort treats as fatal (the expect calls at lines 65 and
\* 72).  No step of the program above produces them; they are brought in by
\* the steps below, which belong to SpecFault only.

\* The one-shot observer is destroyed without having fired, and with it the
\* sender it owns (line 60): from then on nothing can send the idle signal.
\* With observerOn and idleSignal both false inside rx.recv() the channel is
\* disconnected and empty.
ObserverLost ==
    /\ abortPc \in {"is_waiting", "recv"}
    /\ observerOn
    /\ observerOn' = FALSE
    /\ UNCHANGED << ctorVars, hostVars, loopCtl, cbVars, chanVars, aborted, consVars,
                    handleVars, abortVars, idleSignal >>

\* Line 65: rx.recv() returns Err on a disconnected empty channel and expect
\* panics; abort is left at this statement.
AbortRecvFails ==
    /\ abortPc = "recv"
    /\ ~idleSignal
    /\ ~observerOn
    /\ abortPc' = "fatal"
    /\ UNCHANGED << ctorVars, hostVars, loopCtl, cbVars, chanVars, aborted, consVars,
                    handleVars, abortCalls, abortTrace, phaseAtStop, obsVars >>

\* The host thread ends by a panic.  After the hand-off the only statements
\* of the closure a panic can unwind from are stream.stop and
\* stream.invalidate (lines 165-166): nothing stands between the send and
\* run_current, and inside run_current a panic of the callback is caught.
\* Unwinding drops the stream the closure owns.
HostThreadPanics ==
    /\ hostPc \in {"returned", "stopped"}
    /\ hostPc' = "panicked"
    /\ fsStream' = "released"
    /\ pendingNotes' = 0
    /\ senderAlive' = ReleaseContext(senderAlive)
    /\ parked' = WakeStreamTask(parked)
    /\ UNCHANGED << ctorVars, loopPhase, stopFlag, wakeup, cbVars, chan, rxClosed, aborted,
                    lastPoll, received, handleVars, abortVars, obsVars >>

\* Variant of AbortJoinFails for checking C18: the error of join is ignored
\* and abort goes on.
AbortJoinFails_Ignored ==
    /\ abortPc = "join"
    /\ hostPc = "panicked"
    /\ abortTrace' = Append(abortTrace, "join")
    /\ abortPc' = "abort"
    /\ UNCHANGED << ctorVars, hostVars, loopCtl, cbVars, chanVars, aborted, consVars,
                    handleVars, abortCalls, phaseAtStop, obsVars >>

\* Line 72: thread_handle.join() returns Err for a thread that panicked and
\* expect panics; abort is left at this statement, line 75 is not reached.
AbortJoinFails ==
    /\ abortPc = "join"
    /\ hostPc = "panicked"
    /\ abortPc' = "fatal"
    /\ UNCHANGED << ctorVars, hostVars, loopCtl, cbVars, chanVars, aborted, consVars,
                    handleVars, abortCalls, abortTrace, phaseAtStop, obsVars >>

\* abort is called again on a handle whose first call ended by a panic
\* (lines 57-58): the triple is gone, the call does nothing.
AbortCallAfterFatal ==
    /\ ctorPc = "done"
    /\ ~handleDropped
    /\ abortPc = "fatal"
    /\ abortCalls < MaxAbortCalls
    /\ abortCalls' = abortCalls + 1
    /\ IF triple = "some"
       THEN /\ triple' = TripleAfterTake
            /\ abortPc' = "add_observer"
       ELSE UNCHANGED << triple, abortPc >>
    /\ UNCHANGED << ctorVars, hostVars, loopCtl, cbVars, chanVars, aborted, consVars,
                    handleDropped, abortTrace, phaseAtStop, obsVars >>

FaultNext ==
    \/ ObserverLost
    \/ AbortRecvFails
    \/ HostThreadPanics
    \/ AbortJoinFails
    \/ AbortCallAfterFatal

NextFault ==
    \/ Next
    \/ FaultNext

SpecFault == Init /\ [][NextFault]_vars

\* ------------------------------------------------------------------ helpers

Range(q) == { q[i] : i \in 1..Len(q) }

IsPrefix(p, q) ==
    /\ Len(p) <= Len(q)
    /\ \A i \in 1..Len(p) : p[i] = q[i]

RECURSIVE IsSubseq(_, _)
\* p can be obtained from q by deleting elements.
IsSubseq(p, q) ==
    IF p = << >> THEN TRUE
    ELSE IF q = << >> THEN FALSE
    ELSE IF Head(p) = Head(q) THEN IsSubseq(Tail(p), Tail(q))
    ELSE IsSubseq(p, Tail(q))

\* The shutdown steps of lines 59-75 in source order, with and without the
\* wait for the idle signal.
ShutdownWithWait ==
    << "add_observer", "wait", "remove_observer", "stop", "join", "abort" >>
ShutdownWithoutWait ==
    << "add_observer", "remove_observer", "stop", "join", "abort" >>

FirstAbortReturned == abortPc = "returned"

\* The first abort call has issued runloop.stop().
StopIssued == "stop" \in Range(abortTrace)

\* --------------------------------------------------------------------- C1

\* C1: a poll made after the first abort call has returned reports the end of
\* the sequence: it yields no record and is not pending, whatever the channel
\* still buffers.
C1_PollAfterAbortEnds ==
    /\ lastPoll.afterAbort => lastPoll.result = "end"
    /\ FirstAbortReturned => aborted /\ ~parked

\* A poll after abort has returned, with records from before the abort still
\* buffered in the channel.
C1_Witness ==
    /\ lastPoll.afterAbort
    /\ lastPoll.result = "end"
    /\ Len(chan) > 0

\* --------------------------------------------------------------------- C2

varsButAbortCalls ==
    << ctorPc, hostPc, loopPhase, stopFlag, wakeup, fsStream, pendingNotes, nextId,
       cbNum, cbIdx, lastEntry, lastOutcome, chan, senderAlive, rxClosed, aborted, parked,
       lastPoll, received, produced, firstDrop, triple, handleDropped, abortPc,
       abortTrace, observerOn, idleSignal, phaseAtStop >>

varsButAbortPc ==
    << ctorPc, hostPc, loopPhase, stopFlag, wakeup, fsStream, pendingNotes, nextId,
       cbNum, cbIdx, lastEntry, lastOutcome, chan, senderAlive, rxClosed, aborted, parked,
       lastPoll, received, produced, firstDrop, triple, handleDropped, abortCalls,
       abortTrace, observerOn, idleSignal, phaseAtStop >>

NoStepTwice ==
    \A i, j \in 1..Len(abortTrace) : abortTrace[i] = abortTrace[j] => i = j

\* C2: the shutdown protocol runs at most once: no step of it is executed
\* twice, the first call leaves the handle without its triple, and a call made
\* after the first one returns at once and changes no state.
C2_AbortIdempotent ==
    /\ [](NoStepTwice /\ (abortCalls >= 1 => triple = "taken"))
    /\ [][ (abortCalls' = abortCalls + 1 /\ abortCalls >= 1)
             => (abortPc' = "returned" /\ UNCHANGED varsButAbortCalls) ]_vars

\* abort was called a second time after the first call ran the whole protocol.
C2_Witness ==
    /\ abortCalls = 2
    /\ abortPc = "returned"
    /\ abortTrace \in {ShutdownWithWait, ShutdownWithoutWait}

\* --------------------------------------------------------------------- C3

\* C3: the steps of the first abort call happen in source order: register the
\* observer, wait for the idle signal (only when the loop was not reported
\* waiting), unregister, stop, join, abort the stream.  The observer is off the
\* loop once stop is issued, join comes after stop, and the stream is aborted
\* only after the host thread has ended.
C3_ShutdownOrder ==
    /\ \/ IsPrefix(abortTrace, ShutdownWithWait)
       \/ IsPrefix(abortTrace, ShutdownWithoutWait)
    /\ "stop" \in Range(abortTrace) => ~observerOn
    /\ "join" \in Range(abortTrace) => "stop" \in Range(abortTrace) /\ hostPc = "exited"
    /\ aborted => "join" \in Range(abortTrace) /\ hostPc = "exited"

\* A first abort call that went through every step, the wait included.
C3_Witness ==
    /\ abortTrace = ShutdownWithWait
    /\ aborted
    /\ hostPc = "exited"

\* --------------------------------------------------------------------- C4

\* C4: whenever abort issues the loop-stop call, the loop is not in the middle
\* of dispatching a callback batch.
C4_StopNotMidDispatch ==
    phaseAtStop # "callback"

\* --------------------------------------------------------------------- C5

InAbort == abortPc \notin {"idle", "returned"}

\* C5: every call of abort returns, under fair scheduling of the host thread:
\* a call that has started reaches its return.
C5_AbortReturns ==
    InAbort ~> (abortPc = "returned")

\* An abort call that had to wait for the idle signal has returned, with the
\* channel full and nothing ever polled.
C5_Witness ==
    /\ abortPc = "returned"
    /\ "wait" \in Range(abortTrace)
    /\ Len(chan) = ChannelCapacity
    /\ lastPoll.result = "none"

\* --------------------------------------------------------------------- C6

Delivered == received \o chan

\* C6: the records given to the consumer, followed by those still buffered,
\* are an order-preserving subsequence of the records the callback built from
\* the entries handed to it, without duplicates; with the native ids handed
\* over in non-decreasing order, the ids received never decrease.
C6_OrderPreserved ==
    /\ IsSubseq(Delivered, produced)
    /\ \A i, j \in 1..Len(received) : i < j => received[i].id <= received[j].id

\* The consumer has received three records, one of them after a record that
\* was never delivered.
C6_Witness ==
    /\ Len(received) = 3
    /\ received[3].id > received[2].id + 1

\* --------------------------------------------------------------------- C7

CallbackStep ==
    \/ \E e \in Entries : CallbackEntry(e)
    \/ CallbackReturn

\* C7: the channel never buffers more than its capacity, a running callback
\* invocation can always take its next step whatever the consumer does, and a
\* record offered to a full or closed channel is dropped.
C7_BoundedNonBlocking ==
    /\ Len(chan) <= ChannelCapacity
    /\ loopPhase = "callback" => ENABLED CallbackStep
    /\ lastOutcome \in {"full", "closed"} =>
          /\ Len(produced) > 0
          /\ produced[Len(produced)] \notin Range(Delivered)

\* A record was dropped on a full channel and the same invocation goes on to
\* its next entry.
C7_Witness ==
    /\ lastOutcome = "full"
    /\ Len(chan) = ChannelCapacity
    /\ loopPhase = "callback"
    /\ cbIdx < cbNum

\* --------------------------------------------------------------------- C8

\* C8 as stated: once records have been dropped on a full channel, what the
\* consumer has received is a prefix of the records produced.
C8_ReceivedIsPrefix ==
    firstDrop > 0 => IsPrefix(received, produced)

BeforeFirstDrop ==
    SubSeq(produced, 1, IF firstDrop = 0 THEN Len(produced) ELSE firstDrop - 1)

\* C8 amended: while the stream exists, the records received followed by those
\* buffered begin with every record produced before the first one dropped on a
\* full channel; what follows is a subsequence of the later records.
C8_PrefixUpToFirstDrop ==
    ~rxClosed =>
        /\ IsPrefix(BeforeFirstDrop, Delivered)
        /\ IsSubseq(SubSeq(Delivered, Len(BeforeFirstDrop) + 1, Len(Delivered)),
                    SubSeq(produced, Len(BeforeFirstDrop) + 1, Len(produced)))

\* A record was dropped on the full channel, and a later record was received.
C8_Witness ==
    /\ firstDrop > 0
    /\ ~rxClosed
    /\ Len(received) > Len(BeforeFirstDrop)

\* --------------------------------------------------------------------- C9

\* The callback has just read one entry.
EntryStep == loopPhase = "callback" /\ lastEntry' # None /\ nextId' > nextId

\* An entry whose identifier does not convert or whose flags do not decode.
Undecodable(e) ==
    /\ e.hasFileId
    /\ \/ ~e.inode.fits
       \/ e.raw_flags >= StreamFlagsLimit

Decodable(e) ==
    /\ e.hasFileId
    /\ e.inode.fits
    /\ e.raw_flags < StreamFlagsLimit

\* C9: an entry that fails to decode is skipped and nothing else: the
\* invocation stays in its loop at the next index, the channel, the stream and
\* the loop are untouched; a well-formed entry read at any index is enqueued
\* whenever a slot is free and the receiver exists.
C9_DecodeFailureLocal ==
    [][ EntryStep =>
          LET e == lastEntry'[1] IN
          /\ Undecodable(e) =>
                /\ loopPhase' = "callback"
                /\ cbIdx' = cbIdx + 1
                /\ cbNum' = cbNum
                /\ nextId' = nextId + 1
                /\ UNCHANGED << chan, senderAlive, rxClosed, aborted, stopFlag, wakeup,
                                hostPc, fsStream, received >>
          /\ (Decodable(e) /\ ~rxClosed /\ Len(chan) < ChannelCapacity) =>
                /\ chan' = Append(chan, [id |-> nextId, inode |-> e.inode.val,
                                         flags |-> [bits |-> e.raw_flags],
                                         raw_flags |-> e.raw_flags])
                /\ loopPhase' = "callback"
                /\ cbIdx' = cbIdx + 1
      ]_vars

\* In one invocation an entry failed to decode and the well-formed
\* entry after it was enqueued.
C9_Witness ==
    /\ loopPhase = "callback"
    /\ cbIdx >= 2
    /\ lastOutcome = "sent"
    /\ Len(chan) > 0
    /\ chan[Len(chan)].id = nextId - 1
    /\ \A r \in Range(produced) : r.id # nextId - 2

\* -------------------------------------------------------------------- C10

\* The handle was dropped and abort was never called on it.
DiscardedWithoutAbort == handleDropped /\ triple = "some"

\* C10: after the handle is dropped without abort, the loop is never stopped,
\* the host thread stays before or inside run_current with the stream started
\* and the context alive, the stream is never aborted, and no step of abort is
\* possible any more.
C10_DropStopsNothing ==
    DiscardedWithoutAbort =>
        /\ ~stopFlag /\ ~wakeup
        /\ hostPc \in {"published", "run"}
        /\ fsStream = "started"
        /\ senderAlive
        /\ ~aborted
        /\ abortTrace = << >>
        /\ ~ENABLED AbortCall
        /\ ~ENABLED AbortNext

\* With the handle dropped and abort never called, the loop is dispatching a
\* batch and has enqueued a record.
C10_Witness ==
    /\ DiscardedWithoutAbort
    /\ loopPhase = "callback"
    /\ lastOutcome = "sent"

\* ---------------------------------------------------------------------- C11

\* The session has a host thread (its closure has been handed to thread::spawn).
HostThreadExists == hostPc # "none"

\* Nothing of a session exists: no thread, no loop, no native stream, no
\* receiving end, no stream/handle pair.
NothingExists ==
    /\ ~HostThreadExists
    /\ loopPhase = "off"
    /\ fsStream = "none"
    /\ rxClosed
    /\ triple = "none"
    /\ ~ENABLED (HostNext \/ AbortNext \/ OwnerNext \/ ConsumerNext)

\* C11: a construction call that fails leaves no thread, loop or pair behind
\* and can take no further step; the host thread exists exactly from the spawn
\* step of a successful construction on, comes into existence only by that
\* step, and the spawn step is never taken a second time.
C11_SpawnOnlyOnSuccess ==
    /\ [](ctorPc = "failed" => NothingExists)
    /\ [](HostThreadExists <=> ctorPc \in {"spawned", "done"})
    /\ [][~HostThreadExists /\ HostThreadExists'
             => ctorPc = "created" /\ ctorPc' = "spawned" /\ hostPc' = "spawned"]_vars
    /\ [][HostThreadExists => HostThreadExists' /\ (hostPc' = "spawned" => hostPc = "spawned")]_vars
    /\ [][ctorPc = "failed" => ctorPc' = "failed"]_vars

C11_Witness == ctorPc = "failed" /\ hostPc = "none" /\ triple = "none"

\* ---------------------------------------------------------------------- C12

\* The (stream, handle) pair has been returned by raw_event_stream.
PairExists == ctorPc = "done"

\* The native watch-stream has been scheduled on a loop and started.
ScheduledAndStarted == fsStream \in {"started", "stopped", "invalidated", "released"}

\* C12: a pair exists only once the host thread has published its loop, and
\* then the watch-stream is already scheduled and started; the publishing step
\* is taken once, from the state in which the stream is scheduled and started
\* and the loop is not yet running, and the run call is entered only after it.
C12_HandOffBeforeReturn ==
    /\ [](PairExists => RunloopPublished /\ ScheduledAndStarted)
    /\ [](triple # "none" => PairExists)
    /\ [][~RunloopPublished /\ RunloopPublished'
             => /\ hostPc = "started" /\ hostPc' = "published"
                /\ fsStream = "started" /\ loopPhase = "off"
                /\ ~PairExists /\ ~PairExists']_vars
    /\ [][RunloopPublished => RunloopPublished' /\ (hostPc' = "published" => hostPc = "published")]_vars
    /\ [][loopPhase = "off" /\ loopPhase' # "off" => hostPc = "published" /\ hostPc' = "run"]_vars
    /\ [][fsStream' = "scheduled" /\ fsStream # "scheduled" => fsStream = "created" /\ hostPc = "spawned"]_vars
    /\ [][fsStream' = "started" /\ fsStream # "started" => fsStream = "scheduled" /\ hostPc = "scheduled"]_vars

C12_Witness == PairExists /\ hostPc = "published" /\ fsStream = "started" /\ loopPhase = "off"

\* ---------------------------------------------------------------------- C13

\* An entry whose dictionary lacks the file-id key: CFDictionary::get panics.
Panicking(e) == ~e.hasFileId

\* C13: reading an entry that makes callback_impl panic ends that invocation
\* as a return of callback does: the host thread stays inside its run call with
\* the loop at the end of an iteration, the entries of that invocation not yet
\* read are passed over, the channel and everything the invocation enqueued
\* are untouched, nothing is stopped, closed or released; and an invocation
\* entered after a panic can take its steps.
C13_PanicContained ==
    /\ [][EntryStep /\ Panicking(lastEntry'[1])
             => /\ lastOutcome' = "panic"
                /\ hostPc = "run" /\ hostPc' = "run"
                /\ loopPhase' = "check"
                /\ cbNum' = 0 /\ cbIdx' = 0
                /\ nextId' = nextId + (cbNum - cbIdx)
                /\ UNCHANGED << chan, produced, firstDrop, senderAlive, rxClosed, fsStream,
                                stopFlag, wakeup, pendingNotes, aborted, parked, received,
                                lastPoll, abortVars, handleVars, obsVars, ctorVars >>]_vars
    /\ [](lastOutcome = "panic" /\ hostPc = "run" => loopPhase # "off")
    /\ [](lastOutcome = "panic" /\ loopPhase = "callback" => ENABLED CallbackStep)

\* After a panic, with a record of the panicking invocation's predecessors
\* still buffered, the loop has entered the next invocation.
C13_Witness ==
    /\ lastOutcome = "panic"
    /\ loopPhase = "callback"
    /\ cbNum > 0
    /\ Len(chan) >= 1

\* ---------------------------------------------------------------------- C14

\* The host thread has run its closure to the end.
HostTerminated == hostPc = "exited"

\* C14: once the first abort call has returned the host thread has ended, its
\* loop is off, the watch-stream is gone, no callback invocation is in
\* progress and no step of the host thread or of the event source is possible;
\* from then on nothing is built or enqueued (the channel only shrinks).  The
\* thread ends only from the state after stream.invalidate, which is entered
\* only after stream.stop, which runs only after the run call has returned.
C14_HostEndedAtReturn ==
    /\ [](FirstAbortReturned
            => /\ HostTerminated
               /\ loopPhase = "off" /\ cbNum = 0
               /\ fsStream = "released"
               /\ ~ENABLED (HostNext \/ NativeNotify))
    /\ [][FirstAbortReturned
             => /\ produced' = produced
                /\ chan' \in {chan, <<>>} \cup (IF chan = <<>> THEN {} ELSE {Tail(chan)})]_vars
    /\ [][~HostTerminated /\ HostTerminated'
             => hostPc = "invalidated" /\ fsStream = "invalidated"]_vars
    /\ [][fsStream # "invalidated" /\ fsStream' = "invalidated"
             => hostPc = "stopped" /\ fsStream = "stopped"]_vars
    /\ [][fsStream # "stopped" /\ fsStream' = "stopped"
             => hostPc = "returned" /\ loopPhase = "off"]_vars

\* Abort has returned after callbacks had built records, some still buffered.
C14_Witness ==
    /\ FirstAbortReturned
    /\ HostTerminated
    /\ Len(produced) >= 2
    /\ Len(chan) >= 1

\* ---------------------------------------------------------------------- C15

\* The context (the StreamContextInfo holding the sender) exists.
ContextAlive == senderAlive

\* C15 as claimed: every context is released, once, by the destruction of
\* the watch-stream that owns it; so a context that exists belongs to a native
\* watch-stream that exists.  A construction call that fails after line 137
\* leaves a context that no watch-stream owns and nothing will release.
C15_ContextOwnedByStream ==
    ContextAlive => fsStream \in {"created", "scheduled", "started", "stopped", "invalidated"}

\* C15, the part that holds: the context goes away in one step only, the end
\* of the host thread's closure, taken after the run call returned and the
\* stream was stopped and invalidated, and with no callback in progress; it
\* is made by the construction call only and once gone never comes back, so it
\* is released at most once.  A callback invocation in progress and a loop
\* that can still dispatch one always find it alive, and so does every state in
\* which the constructing call has returned and the host thread has not ended.
C15_ContextReleasedOnce ==
    /\ [][ContextAlive /\ ~ContextAlive'
             => /\ hostPc = "invalidated" /\ hostPc' = "exited"
                /\ fsStream = "invalidated" /\ fsStream' = "released"
                /\ loopPhase = "off" /\ cbNum = 0]_vars
    /\ [][~ContextAlive /\ ContextAlive'
             => ctorPc = "start" /\ ctorPc' \in {"created", "failed"}]_vars
    /\ [](fsStream = "released" <=> (~ContextAlive /\ ctorPc \in {"spawned", "done"} /\ HostTerminated))
    /\ [](loopPhase # "off" => ContextAlive)
    /\ [](PairExists /\ ~HostTerminated => ContextAlive)

\* The context has been released after callbacks had used it.
C15_Witness ==
    /\ ~ContextAlive
    /\ fsStream = "released"
    /\ PairExists
    /\ Len(produced) >= 1

\* ---------------------------------------------------------------------- C16

\* The consumer has seen the end of the sequence, or has given the stream up.
ConsumerSawEnd == lastPoll.result = "end" \/ rxClosed

\* C16: with an executor that polls the task only when it is runnable, a
\* consumer task parked in a poll while abort executes is woken (it leaves the
\* parked state although nothing polls it) and its polling then reaches the
\* end of the sequence, unless it drops the stream; a task still parked when
\* the host thread ends is woken by that step; and once the first abort call
\* has returned no task is parked and no poll parks one.
C16_ParkedPollerEnds ==
    /\ (parked /\ InAbort) ~> (~parked /\ ConsumerSawEnd)
    /\ [][parked /\ ~HostTerminated /\ HostTerminated' => ~parked']_vars
    /\ [](FirstAbortReturned => ~parked)
    /\ [][FirstAbortReturned => ~parked']_vars

\* The consumer task is parked by a Pending poll while abort executes: abort
\* has issued stop and waits in join, the host thread has left its loop and
\* is about to end, nothing is buffered, and the stream is neither aborted nor
\* dropped.  Only a call of its waker makes this task run again.
C16_Witness ==
    /\ parked
    /\ lastPoll.result = "pending"
    /\ abortPc = "join"
    /\ StopIssued
    /\ hostPc = "invalidated"
    /\ chan = << >>
    /\ ~aborted
    /\ ~rxClosed

\* ---------------------------------------------------------------------- C17

\* C17: dropping the stream changes nothing of the loop, the host thread, the
\* native stream, the context or the handle; while no abort has issued stop
\* the host thread stays in (or before) its run call with the stream started;
\* a well-formed entry read after the drop gets the closed-channel error and
\* is dropped, the invocation going on to its next entry, and a running
\* invocation can always take its next step; and an abort call in progress
\* with the stream dropped runs each step of the protocol once and returns.
C17_StreamDropNoCancel ==
    /\ [][PairExists /\ ~rxClosed /\ rxClosed'
             => UNCHANGED << hostVars, loopCtl, cbVars, senderAlive, aborted,
                             handleVars, abortVars, obsVars, ctorVars >>]_vars
    /\ [](PairExists /\ rxClosed /\ ~StopIssued
            => /\ hostPc \in {"published", "run"}
               /\ fsStream = "started"
               /\ ~stopFlag
               /\ ContextAlive)
    /\ [][EntryStep /\ rxClosed /\ Decodable(lastEntry'[1])
             => /\ lastOutcome' = "closed"
                /\ chan = << >> /\ chan' = << >>
                /\ loopPhase' = "callback"
                /\ cbIdx' = cbIdx + 1
                /\ hostPc' = "run"]_vars
    /\ [](rxClosed /\ loopPhase = "callback" => ENABLED CallbackStep)
    /\ (rxClosed /\ InAbort)
          ~> (FirstAbortReturned /\ abortTrace \in {ShutdownWithWait, ShutdownWithoutWait})

\* With the stream dropped before anything was received, a record was refused
\* by the closed channel and an abort call that had to wait for the idle
\* signal has returned.
C17_Witness ==
    /\ rxClosed
    /\ lastOutcome = "closed"
    /\ FirstAbortReturned
    /\ abortTrace = ShutdownWithWait
    /\ received = << >>

\* ---------------------------------------------------------------------- C18

\* abort is inside rx.recv() and nothing can send the idle signal any more.
SignalLost == abortPc = "recv" /\ ~idleSignal /\ ~observerOn

HostPanicked == hostPc = "panicked"

\* The first abort call has ended by a panic.
AbortFailed == abortPc = "fatal"

\* C18: with the idle signal lost, or with the host thread ended by a panic
\* and abort at join, no step of the protocol is possible and only the fatal
\* exit is; abort never returns once the host thread has panicked; abort
\* fails only in those two situations, and the failing step leaves the shared
\* state as it is; after the failure the triple is gone, the steps after the
\* failing one were not executed (the abort controller was not invoked; in the
\* recv case neither the removal of the observer nor stop), and a later call
\* changes nothing but the count of calls.
C18_ViolationIsFatal ==
    /\ [](SignalLost => ~ENABLED AbortNext /\ ENABLED AbortRecvFails)
    /\ [](HostPanicked /\ abortPc = "join" => ~ENABLED AbortNext /\ ENABLED AbortJoinFails)
    /\ [](HostPanicked => abortPc \in {"join", "fatal"})
    /\ [][~AbortFailed /\ AbortFailed'
             => /\ SignalLost \/ (HostPanicked /\ abortPc = "join")
                /\ UNCHANGED varsButAbortPc]_vars
    /\ [](AbortFailed
            => /\ triple = "taken"
               /\ ~aborted
               /\ "abort" \notin Range(abortTrace)
               /\ "join" \notin Range(abortTrace)
               /\ HostPanicked \/ (~StopIssued /\ "remove_observer" \notin Range(abortTrace)
                                               /\ ~stopFlag /\ hostPc \in {"published", "run"}))
    /\ [][AbortFailed
             => /\ AbortFailed'
                /\ UNCHANGED << abortTrace, aborted, triple, stopFlag, wakeup, obsVars,
                                phaseAtStop >>]_vars
    /\ [][AbortFailed /\ abortCalls' # abortCalls => UNCHANGED varsButAbortCalls]_vars

\* The host thread panicked, the first abort call failed at join, and abort
\* has been called again.
C18_Witness ==
    /\ AbortFailed
    /\ HostPanicked
    /\ abortCalls = 2
    /\ ~aborted

\* The first abort call failed inside rx.recv().
C18_WitnessRecv ==
    /\ AbortFailed
    /\ ~HostPanicked
    /\ abortCalls = 2

\* ---------------------------------------------------------------------- C19

\* C19: a poll has reported the end only if the first abort call has issued
\* stop; while abort has not been called no poll has reported the end and a
\* poll made now yields a buffered record or is pending; until stop is issued
\* the sender exists and the stream is not aborted; the sender is gone only
\* once the host thread has ended, and the stream is aborted only by the last
\* step of abort.
C19_NoSpuriousEnd ==
    /\ lastPoll.result = "end" => StopIssued
    /\ abortCalls = 0 => lastPoll.result \in {"none", "item", "pending"}
    /\ (PairExists /\ ~rxClosed /\ abortCalls = 0)
          => \A budget \in BOOLEAN :
                /\ PollResult(budget) \in {"item", "pending"}
                /\ PollResult(budget) = "item" => Len(chan) > 0
    /\ (PairExists /\ ~StopIssued) => (ContextAlive /\ ~aborted)
    /\ (PairExists /\ ~ContextAlive) => HostTerminated
    /\ aborted => "abort" \in Range(abortTrace)

\* A poll has reported the end because the channel closed, after stop and
\* before the abort controller was invoked.
C19_Witness ==
    /\ lastPoll.result = "end"
    /\ ~lastPoll.afterAbort
    /\ StopIssued
    /\ ~aborted
    /\ Len(received) >= 1

====
